---------------------------- MODULE Spec2Model ----------------------------
(***************************************************************************)
(* Model of flask_demos/manual_instrumention/app.py: a Flask to-do list    *)
(* whose three handlers (home, add, delete) are manually instrumented with *)
(* OpenTelemetry spans and a requests_count counter.                       *)
(*                                                                         *)
(* Two specifications share the variables:                                 *)
(*   SpecStartup  the module-level start-up code (lines 18-63), run on     *)
(*                every environment drawn from bounded strings;            *)
(*   Spec         request handling (lines 164-207) once start-up has       *)
(*                succeeded; handlers run concurrently, one per worker     *)
(*                thread, and interleave at the granularity of the source  *)
(*                statements.                                              *)
(*                                                                         *)
(* Text that the code only passes around (task descriptions, span and      *)
(* attribute names) is a TLA+ string; text that the code takes apart (the  *)
(* OTLP headers) is a sequence of one-character strings.  Python's None is *)
(* modelled by an absent value: an environment variable is a record with a *)
(* `present' flag, and an optional Task is a sequence of length 0 or 1.    *)
(***************************************************************************)
EXTENDS Integers, Sequences, FiniteSets, Bags, TLC

VARIABLES
    \* ---- start-up (module level) ----
    startup_pc,        \* position in the module-level code
    otlp_endpoint,     \* os.getenv("OTEL_EXPORTER_OTLP_ENDPOINT")
    otlp_headers,      \* os.getenv("OTEL_EXPORTER_OTLP_HEADERS")
    headers_dict,      \* the parsed header mapping
    providers,         \* the process-wide providers registered so far
    \* ---- request handling ----
    store,             \* the task table, in rowid order
    handlers,          \* per worker thread: the handler's position and locals
    spans,             \* every span started, in start order
    requests_counter,  \* the requests_count counter: a bag of label sets
    responses,         \* what each finished request returned to the router
    hist               \* the store's committed changes, in commit order

vars == <<startup_pc, otlp_endpoint, otlp_headers, headers_dict, providers,
          store, handlers, spans, requests_counter, responses, hist>>

startupVars == <<startup_pc, otlp_endpoint, otlp_headers, headers_dict, providers>>
requestVars == <<store, handlers, spans, requests_counter, responses, hist>>

----------------------------------------------------------------------------
(* Bounds *)

\* Longest OTEL_EXPORTER_OTLP_HEADERS value drawn.
MaxHdrLen == 7
\* Requests dispatched in one behaviour.
MaxRequests == 3
\* Largest id a delete request names.
MaxTaskId == 1

\* Characters of a headers value: an ordinary one, the pair separator and the
\* key/value separator.
HdrChars == {"a", ":", ","}

RECURSIVE StringsUpTo(_)
StringsUpTo(n) ==
    IF n = 0 THEN {<<>>}
    ELSE LET shorter == StringsUpTo(n - 1)
         IN  shorter \cup {Append(s, c) : s \in {t \in shorter : Len(t) = n - 1},
                                          c \in HdrChars}

\* An environment variable: absent (os.getenv gives None) or a string.
Unset == [present |-> FALSE, value |-> <<>>]
EnvSet(v) == [present |-> TRUE, value |-> v]

\* Endpoint values drawn: the empty string and a usable address.  The code
\* below looks at nothing but the value's truthiness.
EndpointValues == {<<>>, <<"h">>}

----------------------------------------------------------------------------
(* Start-up: app.py lines 18-63 *)

\* Python truthiness of an os.getenv result: None and "" are falsy.
Truthy(env) == env.present /\ env.value # <<>>

\* Mutant: `and' for `or' in the check of line 23.
ConfigMissing_And(endpoint, hdrs) == ~Truthy(endpoint) /\ ~Truthy(hdrs)

\* line 23: if not otlp_endpoint or not otlp_headers
ConfigMissing(endpoint, hdrs) == ~Truthy(endpoint) \/ ~Truthy(hdrs)

\* c in s
Contains(s, c) == \E i \in 1..Len(s) : s[i] = c

\* str.find: index of the first c in s, 0 when there is none.
RECURSIVE Find(_, _, _)
Find(s, c, i) ==
    IF i > Len(s) THEN 0
    ELSE IF s[i] = c THEN i
    ELSE Find(s, c, i + 1)

\* s.split(sep): always at least one item; empty items are kept.
RECURSIVE Split(_, _)
Split(s, sep) ==
    LET i == Find(s, sep, 1)
    IN  IF i = 0 THEN <<s>>
        ELSE <<SubSeq(s, 1, i - 1)>> \o Split(SubSeq(s, i + 1, Len(s)), sep)

\* Mutant: item.rsplit(":", 1), the split at the last colon.
SplitColonOnce_Last(item) ==
    LET cs == {i \in 1..Len(item) : item[i] = ":"}
        i  == IF cs = {} THEN 0 ELSE CHOOSE m \in cs : \A k \in cs : k <= m
    IN  IF i = 0 THEN <<item>>
        ELSE <<SubSeq(item, 1, i - 1), SubSeq(item, i + 1, Len(item))>>

\* item.split(":", 1) for an item that holds a colon: at most one split, at
\* the first colon.
SplitColonOnce(item) ==
    LET i == Find(item, ":", 1)
    IN  IF i = 0 THEN <<item>>
        ELSE <<SubSeq(item, 1, i - 1), SubSeq(item, i + 1, Len(item))>>

\* the generator's filter: if ":" in item
RECURSIVE FilterColon(_)
FilterColon(items) ==
    IF items = <<>> THEN <<>>
    ELSE (IF Contains(Head(items), ":") THEN <<Head(items)>> ELSE <<>>)
         \o FilterColon(Tail(items))

EmptyDict == [k \in {} |-> <<>>]

\* dict(pairs): pairs are inserted left to right, a later key replacing an
\* earlier equal one.
RECURSIVE Dict(_)
Dict(pairs) ==
    IF pairs = <<>> THEN EmptyDict
    ELSE LET n    == Len(pairs)
             last == pairs[n]
         IN  (last[1] :> last[2]) @@ Dict(SubSeq(pairs, 1, n - 1))

\* lines 29-31
ParseHeaders(hdrs) ==
    LET items == FilterColon(Split(hdrs, ","))
    IN  Dict([i \in 1..Len(items) |-> SplitColonOnce(items[i])])

\* lines 20-21: the environment is read.
StartupInit ==
    /\ startup_pc = "check"
    /\ otlp_endpoint \in {Unset} \cup {EnvSet(v) : v \in EndpointValues}
    /\ otlp_headers \in {Unset} \cup {EnvSet(v) : v \in StringsUpTo(MaxHdrLen)}
    /\ headers_dict = EmptyDict
    /\ providers = {}

\* lines 23-26: a missing or empty variable raises ValueError; the module
\* stops loading.
CheckConfig ==
    /\ startup_pc = "check"
    /\ startup_pc' = IF ConfigMissing(otlp_endpoint, otlp_headers)
                     THEN "fatal" ELSE "parse"
    /\ UNCHANGED <<otlp_endpoint, otlp_headers, headers_dict, providers>>
    /\ UNCHANGED requestVars

\* lines 29-31
BuildHeaders ==
    /\ startup_pc = "parse"
    /\ headers_dict' = ParseHeaders(otlp_headers.value)
    /\ startup_pc' = "tracing"
    /\ UNCHANGED <<otlp_endpoint, otlp_headers, providers>>
    /\ UNCHANGED requestVars

\* lines 34-46: trace.set_tracer_provider and its exporter.
SetTracerProvider ==
    /\ startup_pc = "tracing"
    /\ providers' = providers \cup {"tracer"}
    /\ startup_pc' = "metrics"
    /\ UNCHANGED <<otlp_endpoint, otlp_headers, headers_dict>>
    /\ UNCHANGED requestVars

\* lines 49-63: metrics.set_meter_provider and the requests_count counter.
SetMeterProvider ==
    /\ startup_pc = "metrics"
    /\ providers' = providers \cup {"meter"}
    /\ startup_pc' = "app"
    /\ UNCHANGED <<otlp_endpoint, otlp_headers, headers_dict>>
    /\ UNCHANGED requestVars

\* lines 65-86 and 211-212: the Flask app, the table, app.run.
RunApp ==
    /\ startup_pc = "app"
    /\ startup_pc' = "serving"
    /\ UNCHANGED <<otlp_endpoint, otlp_headers, headers_dict, providers>>
    /\ UNCHANGED requestVars

SpecStartupNext ==
    \/ CheckConfig
    \/ BuildHeaders
    \/ SetTracerProvider
    \/ SetMeterProvider
    \/ RunApp

----------------------------------------------------------------------------
(* The task store: class Task (lines 79-81) behind SQLAlchemy on SQLite *)

\* Task descriptions a form submits.
Descriptions == {"", "buy milk"}

Task(id, description) == [id |-> id, description |-> description]

Ids(tasks) == {tasks[i].id : i \in 1..Len(tasks)}

\* Mutant: the largest id in the table is handed out again.
NextId_NoIncrement(tasks) ==
    IF tasks = <<>> THEN 1
    ELSE CHOOSE m \in Ids(tasks) : \A k \in Ids(tasks) : k <= m

\* An INTEGER PRIMARY KEY column: SQLite assigns the largest id in the
\* table plus one, 1 in an empty table.
NextId(tasks) ==
    IF tasks = <<>> THEN 1
    ELSE (CHOOSE m \in Ids(tasks) : \A k \in Ids(tasks) : k <= m) + 1

\* db.session.add(Task(description=d)); db.session.commit()
Insert(tasks, description) == Append(tasks, Task(NextId(tasks), description))

\* Mutant: the DELETE takes the newest row, whatever its id.
DeleteById_DropsLast(tasks, id) == SubSeq(tasks, 1, Len(tasks) - 1)

\* db.session.delete(task); db.session.commit(): DELETE ... WHERE id = ?
DeleteById(tasks, id) == SelectSeq(tasks, LAMBDA t : t.id # id)

\* Task.query.all(): the rows in rowid order.
QueryAll(tasks) == tasks

\* Task.query.get(id): the row, or None (the empty sequence).
QueryGet(tasks, id) == SelectSeq(tasks, LAMBDA t : t.id = id)

----------------------------------------------------------------------------
(* Requests, spans and the counter *)

\* Worker threads serving requests concurrently.
Slots == {1, 2}

NoForm == [k \in {} |-> ""]
TaskForm(d) == ("task" :> d)

\* The requests the three routes accept (lines 164, 177, 194).  A POST /add
\* may come without the "task" field.
HomeRequest == [method |-> "GET", route |-> "home", task_id |-> 0, form |-> NoForm]
AddRequest(form) == [method |-> "POST", route |-> "add", task_id |-> 0, form |-> form]
DeleteRequest(id) == [method |-> "GET", route |-> "delete", task_id |-> id, form |-> NoForm]

Requests ==
    {HomeRequest}
    \cup {AddRequest(f) : f \in {NoForm} \cup {TaskForm(d) : d \in Descriptions}}
    \cup {DeleteRequest(id) : id \in 1..MaxTaskId}

\* The span name each handler passes to tracer.start_span (167, 180, 197).
SpanName(request) ==
    CASE request.route = "home"   -> "home-request"
      [] request.route = "add"    -> "add-task"
      [] request.route = "delete" -> "delete-task"

\* Mutant: delete labels its increment with the route rule, not the path.
Labels_RouteRule(request) ==
    CASE request.route = "home"   -> [method |-> "GET", endpoint |-> "/"]
      [] request.route = "add"    -> [method |-> "POST", endpoint |-> "/add"]
      [] request.route = "delete" ->
            [method |-> "GET", endpoint |-> "/delete/<int:task_id>"]

\* The label set each handler passes to requests_counter.add (168, 181, 198).
Labels(request) ==
    CASE request.route = "home"   -> [method |-> "GET", endpoint |-> "/"]
      [] request.route = "add"    -> [method |-> "POST", endpoint |-> "/add"]
      [] request.route = "delete" ->
            [method   |-> "GET",
             endpoint |-> "/delete/" \o ToString(request.task_id)]

NoAttributes == [k \in {} |-> 0]

\* tracer.start_span(name): a started span without attributes.
NewSpan(name) ==
    [name |-> name, attributes |-> NoAttributes, status |-> "UNSET",
     events |-> <<>>, end_count |-> 0]

\* Mutant: span.end() as the block's last statement instead of `with': an
\* exception skips it.
SpanExit_EndOnReturnOnly(span, exc) ==
    IF exc = ""
    THEN [span EXCEPT !.end_count = @ + 1]
    ELSE span

\* Mutant: the span is ended, but an exception leaves no trace on it.
SpanExit_NoStatus(span, exc) == [span EXCEPT !.end_count = @ + 1]

\* Leaving `with tracer.start_span(...) as span': the span's __exit__ ends the
\* span once; when an exception leaves the block it first records the
\* exception as an event and sets the status to ERROR (start_span's
\* record_exception and set_status_on_exception are left at True).
SpanExit(span, exc) ==
    IF exc = ""
    THEN [span EXCEPT !.end_count = @ + 1]
    ELSE [span EXCEPT !.events = Append(@, exc), !.status = "ERROR",
                      !.end_count = @ + 1]

IdleHandler ==
    [pc |-> "idle", request |-> HomeRequest, rid |-> 0, span |-> 0,
     tasks |-> <<>>, task_description |-> "", exc |-> "", result |-> "",
     queried |-> FALSE, store_failed |-> FALSE, seen |-> 0]

Busy == {s \in Slots : handlers[s].pc # "idle"}

Dispatched == Len(responses) + Cardinality(Busy)

\* State after a successful start-up with headers "a:a" and an empty table.
Init ==
    /\ startup_pc = "serving"
    /\ otlp_endpoint = EnvSet(<<"h">>)
    /\ otlp_headers = EnvSet(<<"a", ":", "a">>)
    /\ headers_dict = ParseHeaders(<<"a", ":", "a">>)
    /\ providers = {"tracer", "meter"}
    /\ store = <<>>
    /\ handlers = [s \in Slots |-> IdleHandler]
    /\ spans = <<>>
    /\ requests_counter = EmptyBag
    /\ responses = <<>>
    /\ hist = <<>>

SpecStartupInit ==
    /\ StartupInit
    /\ store = <<>>
    /\ handlers = [s \in Slots |-> IdleHandler]
    /\ spans = <<>>
    /\ requests_counter = EmptyBag
    /\ responses = <<>>
    /\ hist = <<>>

----------------------------------------------------------------------------
(* The handlers: app.py lines 164-207 *)

SetHandler(s, h) == handlers' = [handlers EXCEPT ![s] = h]

\* span.set_attribute(key, value)
SetAttribute(span, key, value) ==
    [span EXCEPT !.attributes = (key :> value) @@ @]

\* What the router sees of a request, with the bookkeeping the properties
\* below read: whether and when the store was queried (`queried', `seen': the
\* number of changes committed before the query) and whether a store call
\* failed.
Outcome(h) ==
    [rid |-> h.rid, request |-> h.request, span |-> h.span, exc |-> h.exc,
     result |-> h.result, tasks |-> h.tasks, queried |-> h.queried,
     store_failed |-> h.store_failed, seen |-> h.seen]

\* The handler `h' leaves its `with' blocks, by return or by exception, with
\* its span as `span': the span is exited, and the router gets the return
\* value or the exception.
Leave(s, h, span) ==
    /\ spans' = [spans EXCEPT ![h.span] = SpanExit(span, h.exc)]
    /\ responses' = Append(responses, Outcome(h))
    /\ SetHandler(s, IdleHandler)

\* The exception `exc' leaves the handler.
Raise(s, h, exc) == Leave(s, [h EXCEPT !.exc = exc], spans[h.span])

\* The store (SQLite behind SQLAlchemy) may fail any query or commit; the
\* failure reaches the handler as an exception.
StoreFails(s, h) ==
    Raise(s, [h EXCEPT !.store_failed = TRUE], "OperationalError")

\* The body a handler runs after the counter increment.
FirstStep(request) ==
    CASE request.route = "home"   -> "home_query"
      [] request.route = "add"    -> "add_form"
      [] request.route = "delete" -> "del_query"

\* The router hands a request to the first free worker thread, which enters
\* the handler.  Lines 167-168, 180-181, 197-198:
\*     with tracer.start_span(<name>) as span:
\*         requests_counter.add(1, {"method": ..., "endpoint": ...})
\* Both statements touch only the thread's own span and the counter, whose
\* add is atomic, so they are one step.
Enter(s, request) ==
    /\ startup_pc = "serving"
    /\ Dispatched < MaxRequests
    /\ handlers[s].pc = "idle"
    /\ \A t \in Slots : t < s => handlers[t].pc # "idle"
    /\ spans' = Append(spans, NewSpan(SpanName(request)))
    /\ requests_counter' = requests_counter (+) SetToBag({Labels(request)})
    /\ SetHandler(s, [IdleHandler EXCEPT !.pc = FirstStep(request),
                                         !.request = request,
                                         !.rid = Dispatched + 1,
                                         !.span = Len(spans) + 1])
    /\ UNCHANGED <<store, responses, hist>>
    /\ UNCHANGED startupVars

\* line 169: tasks = Task.query.all(); the store may fail.
HomeQuery(s) ==
    LET h == handlers[s]
    IN  /\ h.pc = "home_query"
        /\ \/ /\ SetHandler(s, [h EXCEPT !.pc = "home_attr",
                                         !.tasks = QueryAll(store),
                                         !.queried = TRUE, !.seen = Len(hist)])
              /\ UNCHANGED <<spans, responses>>
           \/ StoreFails(s, h)
        /\ UNCHANGED <<store, requests_counter, hist>>
        /\ UNCHANGED startupVars

\* lines 170-173: the quantity attribute, then the rendered page is returned.
HomeAttr(s) ==
    LET h == handlers[s]
    IN  /\ h.pc = "home_attr"
        /\ Leave(s, [h EXCEPT !.result = "page"],
                 SetAttribute(spans[h.span], "tasks_retrieved.quantity",
                              Len(h.tasks)))
        /\ UNCHANGED <<store, requests_counter, hist>>
        /\ UNCHANGED startupVars

\* Mutant: the success attribute of line 189 is set with the description,
\* before the commit.
AddForm_SuccessEarly(s) ==
    LET h == handlers[s]
    IN  /\ h.pc = "add_form"
        /\ IF "task" \in DOMAIN h.request.form
           THEN /\ SetHandler(s, [h EXCEPT !.pc = "add_commit",
                                           !.task_description =
                                               h.request.form["task"]])
                /\ spans' = [spans EXCEPT ![h.span] =
                                SetAttribute(
                                    SetAttribute(@, "task_description",
                                                 h.request.form["task"]),
                                    "added_to_db", TRUE)]
                /\ UNCHANGED responses
           ELSE Raise(s, h, "KeyError")
        /\ UNCHANGED <<store, requests_counter, hist>>
        /\ UNCHANGED startupVars

\* lines 182-185: request.form["task"] raises KeyError (a 400 response) when
\* the field is missing; otherwise the description becomes an attribute.
AddForm(s) ==
    LET h == handlers[s]
    IN  /\ h.pc = "add_form"
        /\ IF "task" \in DOMAIN h.request.form
           THEN /\ SetHandler(s, [h EXCEPT !.pc = "add_commit",
                                           !.task_description =
                                               h.request.form["task"]])
                /\ spans' = [spans EXCEPT ![h.span] =
                                SetAttribute(@, "task_description",
                                             h.request.form["task"])]
                /\ UNCHANGED responses
           ELSE Raise(s, h, "KeyError")
        /\ UNCHANGED <<store, requests_counter, hist>>
        /\ UNCHANGED startupVars

\* lines 186-188: the new Task is added to the session and committed; a
\* failed commit raises and stores nothing.
AddCommit(s) ==
    LET h == handlers[s]
    IN  /\ h.pc = "add_commit"
        /\ \/ /\ store' = Insert(store, h.task_description)
              /\ hist' = Append(hist, [op |-> "add", id |-> NextId(store),
                                       rid |-> h.rid, request |-> h.request])
              /\ SetHandler(s, [h EXCEPT !.pc = "add_ok"])
              /\ UNCHANGED <<spans, responses>>
           \/ /\ StoreFails(s, h)
              /\ UNCHANGED <<store, hist>>
        /\ UNCHANGED requests_counter
        /\ UNCHANGED startupVars

\* lines 189-190: the success attribute, then the redirect is returned.
AddOk(s) ==
    LET h == handlers[s]
    IN  /\ h.pc = "add_ok"
        /\ Leave(s, [h EXCEPT !.result = "redirect"],
                 SetAttribute(spans[h.span], "added_to_db", TRUE))
        /\ UNCHANGED <<store, requests_counter, hist>>
        /\ UNCHANGED startupVars

\* line 199: task_to_delete = Task.query.get(task_id); the store may fail.
DeleteQuery(s) ==
    LET h == handlers[s]
    IN  /\ h.pc = "del_query"
        /\ \/ /\ SetHandler(s, [h EXCEPT !.pc = "del_attr",
                                         !.tasks = QueryGet(store, h.request.task_id),
                                         !.queried = TRUE, !.seen = Len(hist)])
              /\ UNCHANGED <<spans, responses>>
           \/ StoreFails(s, h)
        /\ UNCHANGED <<store, requests_counter, hist>>
        /\ UNCHANGED startupVars

\* line 200: span.set_attribute("task_to_delete", task_to_delete.description)
\* comes before the `if task_to_delete' of line 201: on None the attribute
\* read raises AttributeError.
DeleteAttr(s) ==
    LET h == handlers[s]
    IN  /\ h.pc = "del_attr"
        /\ IF h.tasks = <<>>
           THEN Raise(s, h, "AttributeError")
           ELSE /\ spans' = [spans EXCEPT ![h.span] =
                                SetAttribute(@, "task_to_delete",
                                             h.tasks[1].description)]
                /\ SetHandler(s, [h EXCEPT !.pc = "del_commit"])
                /\ UNCHANGED responses
        /\ UNCHANGED <<store, requests_counter, hist>>
        /\ UNCHANGED startupVars

\* lines 201-205: a Task object is truthy, so the branch is taken whenever
\* line 200 has not raised; the delete is committed or the commit raises.
DeleteCommit(s) ==
    LET h == handlers[s]
    IN  /\ h.pc = "del_commit"
        /\ \/ /\ store' = DeleteById(store, h.tasks[1].id)
              /\ hist' = Append(hist, [op |-> "delete", id |-> h.tasks[1].id,
                                       rid |-> h.rid, request |-> h.request])
              /\ SetHandler(s, [h EXCEPT !.pc = "del_ok"])
              /\ UNCHANGED <<spans, responses>>
           \/ /\ StoreFails(s, h)
              /\ UNCHANGED <<store, hist>>
        /\ UNCHANGED requests_counter
        /\ UNCHANGED startupVars

\* lines 206-207: the success attribute, then the redirect is returned.
DeleteOk(s) ==
    LET h == handlers[s]
    IN  /\ h.pc = "del_ok"
        /\ Leave(s, [h EXCEPT !.result = "redirect"],
                 SetAttribute(spans[h.span], "deleted_from_db", TRUE))
        /\ UNCHANGED <<store, requests_counter, hist>>
        /\ UNCHANGED startupVars

Next ==
    \/ \E s \in Slots, request \in Requests : Enter(s, request)
    \/ \E s \in Slots : HomeQuery(s)
    \/ \E s \in Slots : HomeAttr(s)
    \/ \E s \in Slots : AddForm(s)
    \/ \E s \in Slots : AddCommit(s)
    \/ \E s \in Slots : AddOk(s)
    \/ \E s \in Slots : DeleteQuery(s)
    \/ \E s \in Slots : DeleteAttr(s)
    \/ \E s \in Slots : DeleteCommit(s)
    \/ \E s \in Slots : DeleteOk(s)

Spec == Init /\ [][Next]_vars

SpecStartup == SpecStartupInit /\ [][SpecStartupNext]_vars

----------------------------------------------------------------------------
(* Properties of request handling, checked under Spec *)

\* The requests that have entered a handler: returned or still running.
Entered ==
    {responses[i] : i \in 1..Len(responses)}
        \cup {Outcome(handlers[s]) : s \in Busy}

\* No handler is running.
Quiescent == Busy = {}

\* The span name and the counter labels a request calls for.
ExpectedName(request) ==
    IF request.route = "home" THEN "home-request"
    ELSE IF request.route = "add" THEN "add-task"
    ELSE "delete-task"

ExpectedLabels(request) ==
    IF request.route = "home" THEN [method |-> "GET", endpoint |-> "/"]
    ELSE IF request.route = "add" THEN [method |-> "POST", endpoint |-> "/add"]
    ELSE [method |-> "GET", endpoint |-> "/delete/" \o ToString(request.task_id)]

Attributes(e) == spans[e.span].attributes

\* The committed changes of `h' that put a row in the table which no later
\* change removed.
Live(h) ==
    {i \in 1..Len(h) :
        /\ h[i].op = "add"
        /\ \A j \in (i + 1)..Len(h) : ~(h[j].op = "delete" /\ h[j].id = h[i].id)}

\* The tasks added and not deleted since, each with the description its
\* request submitted, in the order they were added.
RECURSIVE ListFrom(_, _)
ListFrom(h, i) ==
    IF i > Len(h) THEN <<>>
    ELSE (IF i \in Live(h)
          THEN <<Task(h[i].id, h[i].request.form["task"])>>
          ELSE <<>>) \o ListFrom(h, i + 1)

ExpectedList(h) == ListFrom(h, 1)

\* C1: every request that is handled, under every interleaving, produces
\* exactly one span, named for its handler, and exactly one increment of
\* requests_count, labelled with its method and endpoint; when no handler is
\* running the counter's total, the number of requests handled and the
\* number of spans are equal.
C1_OneSpanOneIncrement ==
    LET entered == Entered
    IN  /\ Cardinality(entered) = Dispatched
        /\ Len(spans) = Dispatched
        /\ BagCardinality(requests_counter) = Dispatched
        /\ \A e \in entered :
              /\ e.span \in 1..Len(spans)
              /\ spans[e.span].name = ExpectedName(e.request)
        /\ Cardinality({e.span : e \in entered}) = Cardinality(entered)
        /\ \A l \in BagToSet(requests_counter)
                      \cup {ExpectedLabels(e.request) : e \in entered} :
              CopiesIn(l, requests_counter)
                  = Cardinality({e \in entered : ExpectedLabels(e.request) = l})
        /\ Quiescent =>
              /\ BagCardinality(requests_counter) = Len(responses)
              /\ Len(spans) = Len(responses)

\* One request of each kind has been handled and no handler is running.
C1_Witness ==
    /\ Quiescent
    /\ Len(responses) = 3
    /\ {responses[i].request.route : i \in 1..3} = {"home", "add", "delete"}
    /\ BagCardinality(requests_counter) = 3

\* C2: the span of a handler is closed exactly once on every exit path,
\* return or exception; no handler ends with its span open, and no span is
\* closed twice.
C2_SpanClosedOnce ==
    /\ \A k \in 1..Len(spans) : spans[k].end_count <= 1
    /\ \A i \in 1..Len(responses) : spans[responses[i].span].end_count = 1
    /\ \A s \in Busy : spans[handlers[s].span].end_count = 0

\* Three handlers have ended by exception: a missing form field, a store
\* failure, a field read off an absent record.
C2_Witness ==
    /\ Quiescent
    /\ {responses[i].exc : i \in 1..Len(responses)}
          = {"KeyError", "OperationalError", "AttributeError"}

\* C3: a delete of an id that is not in the store does not raise: it returns
\* the redirect, leaves the store as it is, and records the absence on its
\* span.
C3_DeleteAbsentReturns ==
    \A i \in 1..Len(responses) :
        LET r == responses[i]
        IN  (r.request.route = "delete" /\ r.queried /\ r.tasks = <<>>)
                => /\ r.exc = ""
                   /\ r.result = "redirect"
                   /\ spans[r.span].status # "ERROR"
                   /\ DOMAIN Attributes(r) # {}

\* C4: delete(id) twice in a row, nothing committed in between: the second
\* call completes without raising and changes nothing in the store.
C4_DeleteTwiceSafe ==
    \A i, j \in 1..Len(responses) :
        LET first  == responses[i]
            second == responses[j]
        IN  (/\ j = i + 1
             /\ first.request.route = "delete"
             /\ second.request = first.request
             /\ first.exc = ""
             /\ second.queried
             /\ second.seen > 0
             /\ hist[second.seen].rid = first.rid)
                => /\ second.exc = ""
                   /\ second.result = "redirect"
                   /\ \A k \in 1..Len(hist) : hist[k].rid # second.rid

\* C5: after any sequence of adds and deletes from an empty store, the list
\* home shows is exactly the tasks added and not deleted since, once each,
\* with the description submitted, in insertion order; right after add(d)
\* the list holds a record with description d.
C5_ListIsAddedMinusDeleted ==
    /\ QueryAll(store) = ExpectedList(hist)
    /\ \A e \in Entered :
          (e.request.route = "home" /\ e.queried) =>
              LET before == SubSeq(hist, 1, e.seen)
              IN  /\ e.tasks = ExpectedList(before)
                  /\ Cardinality(Ids(e.tasks)) = Len(e.tasks)
                  /\ (e.seen > 0 /\ before[e.seen].op = "add") =>
                        \E k \in 1..Len(e.tasks) :
                            e.tasks[k].description
                                = before[e.seen].request.form["task"]

\* home has shown the two tasks added before it, in the order added.
C5_Witness ==
    \E i \in 1..Len(responses) :
        /\ responses[i].request.route = "home"
        /\ responses[i].result = "page"
        /\ responses[i].tasks = <<Task(1, "buy milk"), Task(2, "")>>

\* C6: when a store call fails in a handler, the failure reaches the caller,
\* the span is closed and carries the error, no success attribute is set,
\* and the request's increment of requests_count has happened once.
C6_StoreFailureRecorded ==
    \A i \in 1..Len(responses) :
        LET r == responses[i]
        IN  r.store_failed =>
                /\ r.exc = "OperationalError"
                /\ r.result = ""
                /\ spans[r.span].end_count = 1
                /\ spans[r.span].status = "ERROR"
                /\ spans[r.span].events = <<"OperationalError">>
                /\ "added_to_db" \notin DOMAIN Attributes(r)
                /\ "deleted_from_db" \notin DOMAIN Attributes(r)
                /\ CopiesIn(ExpectedLabels(r.request), requests_counter)
                      = Cardinality({j \in 1..Len(responses) :
                            ExpectedLabels(responses[j].request)
                                = ExpectedLabels(r.request)})
                        + Cardinality({s \in Busy :
                            ExpectedLabels(handlers[s].request)
                                = ExpectedLabels(r.request)})

\* The commit of a delete whose record existed has failed, and so has the
\* commit of an add.
C6_Witness ==
    /\ \E i \in 1..Len(responses) :
          /\ responses[i].request.route = "delete"
          /\ responses[i].store_failed
          /\ responses[i].tasks # <<>>
    /\ \E i \in 1..Len(responses) :
          /\ responses[i].request.route = "add"
          /\ responses[i].store_failed

\* C8: a success attribute is set only after the store change has committed:
\* added_to_db=True only on an add-task span whose request committed a task
\* with the submitted description, deleted_from_db=True only on a
\* delete-task span whose record existed when queried and whose deletion
\* committed; task_description is the submitted form value.
C8_SuccessAfterCommit ==
    \A e \in Entered :
        /\ "added_to_db" \in DOMAIN Attributes(e) =>
              /\ Attributes(e)["added_to_db"] = TRUE
              /\ e.request.route = "add"
              /\ \E k \in 1..Len(hist) :
                    /\ hist[k].op = "add"
                    /\ hist[k].rid = e.rid
                    /\ LET stored == ExpectedList(SubSeq(hist, 1, k))
                       IN  stored[Len(stored)]
                               = Task(hist[k].id, e.request.form["task"])
        /\ "deleted_from_db" \in DOMAIN Attributes(e) =>
              /\ Attributes(e)["deleted_from_db"] = TRUE
              /\ e.request.route = "delete"
              /\ e.queried
              /\ e.tasks # <<>>
              /\ \E k \in 1..Len(hist) :
                    /\ hist[k].op = "delete"
                    /\ hist[k].rid = e.rid
                    /\ hist[k].id = e.request.task_id
        /\ "task_description" \in DOMAIN Attributes(e) =>
              /\ e.request.route = "add"
              /\ "task" \in DOMAIN e.request.form
              /\ Attributes(e)["task_description"] = e.request.form["task"]

\* An add and the delete of the task it added have both returned with their
\* success attribute set.
C8_Witness ==
    \E i, j \in 1..Len(responses) :
        /\ "added_to_db" \in DOMAIN Attributes(responses[i])
        /\ Attributes(responses[i])["task_description"] = "buy milk"
        /\ "deleted_from_db" \in DOMAIN Attributes(responses[j])
        /\ Attributes(responses[j])["task_to_delete"] = "buy milk"

UniqueIds == Cardinality(Ids(store)) = Len(store)

\* C9, as stated: every task in the store has a unique id and a non-empty
\* description; an add with the empty string stores no task with an empty
\* description.
C9_NonEmptyDescriptions ==
    /\ UniqueIds
    /\ \A k \in 1..Len(store) : store[k].description # ""

\* C9, amended: every task in the store has a unique id and, as its
\* description, the text of the task field its add request submitted, which
\* may be empty; a request without the field stores nothing.
C9_UniqueIdsSubmittedText ==
    /\ UniqueIds
    /\ LET live == Live(hist)
       IN  \A k \in 1..Len(store) :
               \E i \in live :
                   /\ hist[i].id = store[k].id
                   /\ "task" \in DOMAIN hist[i].request.form
                   /\ hist[i].request.form["task"] = store[k].description
                   /\ store[k].description \in Descriptions
    /\ \A e \in Entered :
          (e.request.route = "add" /\ "task" \notin DOMAIN e.request.form)
              => \A i \in 1..Len(hist) : hist[i].rid # e.rid

\* An add that submitted the empty string has returned, and its task is in
\* the store beside another.
C9_Witness ==
    /\ \E i \in 1..Len(responses) :
          /\ responses[i].request = AddRequest(TaskForm(""))
          /\ responses[i].result = "redirect"
    /\ Len(store) = 2
    /\ \E k \in 1..Len(store) : store[k].description = ""

----------------------------------------------------------------------------
(* Properties of start-up, checked under SpecStartup *)

\* The value is absent (None) or the empty string.
AbsentOrEmpty(env) == ~env.present \/ Len(env.value) = 0

\* The module has run past the check of line 23.
Checked == startup_pc # "check"

\* The module has run past the parsing of lines 29-31.
Parsed == startup_pc \in {"tracing", "metrics", "app", "serving"}

\* The comma-separated items of the headers value.
HeaderItems == Split(otlp_headers.value, ",")

\* Position of the first colon of an item that holds one.
FirstColon(item) ==
    CHOOSE i \in 1..Len(item) :
        item[i] = ":" /\ \A j \in 1..(i - 1) : item[j] # ":"

KeyOf(item) == SubSeq(item, 1, FirstColon(item) - 1)
ValueOf(item) == SubSeq(item, FirstColon(item) + 1, Len(item))

\* The items that are key:value pairs.
PairIndexes == {i \in 1..Len(HeaderItems) : Contains(HeaderItems[i], ":")}

\* Every item is a pair with a key and a value in it.
WellFormedHeaders ==
    \A i \in 1..Len(HeaderItems) :
        /\ i \in PairIndexes
        /\ KeyOf(HeaderItems[i]) # <<>>
        /\ ValueOf(HeaderItems[i]) # <<>>

\* Some item of a non-empty headers value is no key:value pair.
MalformedHeaders ==
    /\ Truthy(otlp_headers)
    /\ PairIndexes # 1..Len(HeaderItems)

DistinctKeys ==
    \A i, j \in PairIndexes :
        KeyOf(HeaderItems[i]) = KeyOf(HeaderItems[j]) => i = j

C10_OneEntryPerPair ==
    (Parsed /\ WellFormedHeaders) =>
        /\ \A i \in PairIndexes :
              KeyOf(HeaderItems[i]) \in DOMAIN headers_dict
        /\ Cardinality(DOMAIN headers_dict) = Len(HeaderItems)

\* C10, amended: each pair is split at its first colon only (the key is the
\* text before it, the value everything after it); the mapping has exactly
\* one entry per distinct key, holding the value of the last pair with that
\* key, so it has one entry per pair when the keys are distinct; a value of
\* one pair parses to the one entry {key: value}.
C10_SplitAtFirstColon ==
    Parsed =>
        /\ DOMAIN headers_dict = {KeyOf(HeaderItems[i]) : i \in PairIndexes}
        /\ \A i \in PairIndexes :
              (\A j \in PairIndexes :
                  KeyOf(HeaderItems[j]) = KeyOf(HeaderItems[i]) => j <= i)
                  => headers_dict[KeyOf(HeaderItems[i])] = ValueOf(HeaderItems[i])
        /\ DistinctKeys => Cardinality(DOMAIN headers_dict) = Cardinality(PairIndexes)
        /\ (WellFormedHeaders /\ DistinctKeys)
              => Cardinality(DOMAIN headers_dict) = Len(HeaderItems)
        /\ (Len(HeaderItems) = 1 /\ PairIndexes = {1})
              => headers_dict = (KeyOf(HeaderItems[1]) :> ValueOf(HeaderItems[1]))

\* A value of two pairs with distinct keys, the first pair with a second
\* colon, has been parsed.
C10_Witness ==
    /\ Parsed
    /\ otlp_headers.value = <<"a", ":", ":", ",", "a", "a", ":">>
    /\ headers_dict = (<<"a">> :> <<":">>) @@ (<<"a", "a">> :> <<>>)

=============================================================================
